---- MODULE Spec2Model ----
(***************************************************************************)
(* State-machine model of the MAXTER chat widget, in its six versions:     *)
(*   p004, p002  two-mode widget (Productos / Mi Pedido, one form)         *)
(*   p000, p001  tabbed widget (one panel and one form per tab)            *)
(*   widget, p003 single-flow chat widget (widget.js adds the tracking)    *)
(* A page loads one version; ver says which.  The backend and the user are *)
(* the environment: the user's events and the backend's responses are the  *)
(* inputs of the actions.                                                  *)
(***************************************************************************)
EXTENDS Integers, Sequences, FiniteSets, TLC

\* ---------------------------------------------------------------- bounds
\* longest text the user types into an input
MaxLen == 2
\* requests the widget issues in one behaviour
MaxRequests == 2
\* largest total_pages the backend reports
MaxPages == 2
\* executions of the script on one page (p000)
MaxRuns == 2
\* calls of track() in one behaviour (widget)
MaxTracked == 6
\* products of the longest list the backend returns to the chat widget
ManyLen == 21

VARIABLES
  ver,             \* which version of the script the page loads
  readyState,      \* document.readyState: "loading" until DOMContentLoaded
  runs,            \* executions of the script so far
  dclListeners,    \* DOMContentLoaded listeners registered and not yet fired
  roots,           \* widget roots attached to document.body
  mode,            \* chatState.mode (p004, p002)
  currentQuery,    \* chatState.currentQuery
  currentPage,     \* chatState.currentPage
  pagination,      \* chatState.pagination: <<>> is null, <<p>> an object
  isLoading,       \* chatState.isLoading
  isOpen,          \* state.isOpen (p000)
  shellDisplay,    \* shell.style.display (p000)
  launcherDisplay, \* launcher.style.display (p000)
  mxOpen,          \* panel.classList has mx-open (p004, p002, widget, p003)
  prodDisplay,     \* panelProducts.style.display (p000, p001)
  ordDisplay,      \* panelOrders.style.display (p000, p001)
  tabsActive,      \* data-tab of the .mx-tab buttons carrying class active
  submitDisabled,  \* disabled of the submit / send button
  submitText,      \* label of the submit button
  pagiDisplay,     \* style.display of #mxPagination
  prevDisabled,    \* #mxPrevBtn.disabled
  nextDisabled,    \* #mxNextBtn.disabled
  body,            \* children of the message body, oldest first
  sent,            \* every request issued, oldest first (with its closure)
  inflight,        \* indices into sent of the fetches not yet settled
  ev,              \* the event whose handler ran last
  greeted,         \* let greeted (widget, p003)
  tracked,         \* calls of track(), <<eventName, payload>>, oldest first
  env,             \* window.fbq, MAXTER_TRACK_ENDPOINT, navigator.sendBeacon
  dataLayer,       \* window.dataLayer
  fbqCalls,        \* calls received by window.fbq
  beacons,         \* events handed to navigator.sendBeacon
  trackThrew,      \* a call of track() threw to its caller
  bodyOrders,      \* children of #mxOrderBody (p000, p001)
  ordersDisabled,  \* disabled of the submit button of #mxOrderForm
  ordersText,      \* innerText of the submit button of #mxOrderForm
  ordersSent,      \* order_no of the POSTs to /api/orders/status, in order
  ordersInflight   \* indices into ordersSent of those still pending

docVars   == <<ver, readyState, runs, dclListeners, roots>>
chatVars  == <<mode, currentQuery, currentPage, pagination, isLoading>>
shellVars == <<isOpen, shellDisplay, launcherDisplay, mxOpen>>
tabVars   == <<prodDisplay, ordDisplay, tabsActive>>
formVars  == <<submitDisabled, submitText>>
pagiVars  == <<pagiDisplay, prevDisabled, nextDisabled>>
netVars   == <<sent, inflight>>
trackVars == <<tracked, env, dataLayer, fbqCalls, beacons, trackThrew>>
ordVars   == <<bodyOrders, ordersDisabled, ordersText, ordersSent,
               ordersInflight>>
vars == <<docVars, chatVars, shellVars, tabVars, formVars, pagiVars, body,
          netVars, ev, greeted, trackVars, ordVars>>

Versions == {"p004", "p002", "p000", "p001", "widget", "p003"}
TwoMode  == ver \in {"p004", "p002"}
Tabbed   == ver \in {"p000", "p001"}
Chat     == ver \in {"widget", "p003"}

\* ------------------------------------------------------------ user input
\* Text is a sequence of characters; " " stands for any white space.
Chars == {" ", "a"}
Inputs == UNION {[1..n -> Chars] : n \in 0..MaxLen}

RECURSIVE trimStart(_)
trimStart(s) ==
  IF s # <<>> /\ Head(s) = " " THEN trimStart(Tail(s)) ELSE s

RECURSIVE trimEnd(_)
trimEnd(s) ==
  IF s # <<>> /\ s[Len(s)] = " " THEN trimEnd(SubSeq(s, 1, Len(s) - 1)) ELSE s

\* String.prototype.trim
trim(s) == trimEnd(trimStart(s))

\* ------------------------------------------------------ backend responses
Null == <<>>
Paginations ==
  [total_pages : 1..MaxPages, has_prev : BOOLEAN, has_next : BOOLEAN]

\* What a POST /api/chat settles with.  products: "none" is a body without a
\* products array (or JSON null), "empty" is [], "some" a list of product
\* objects, "bad" a list holding an entry that is not an object (null).
\* The answer text and the pagination act on different parts of the page, so
\* the pagination varies under one answer only.
ChatResponses ==
  {[ok |-> FALSE, products |-> "none", answer |-> FALSE, pagination |-> Null]}
  \cup [ok : {TRUE}, products : {"none", "empty", "bad", "some"},
        answer : BOOLEAN, pagination : {Null}]
  \cup [ok : {TRUE}, products : {"some"}, answer : {TRUE},
        pagination : {<<p>> : p \in Paginations}]

\* What a POST /api/orders settles with.
OrderResponses ==
  {[ok |-> FALSE, items |-> "none", answer |-> FALSE]}
  \cup [ok : {TRUE}, items : {"none", "some", "bad"}, answer : BOOLEAN]

NoEvent == [type |-> "none"]

\* ------------------------------------------------------------ DOM helpers
RECURSIVE removeFirst(_, _)
\* the sequence without its first element equal to k
removeFirst(b, k) ==
  IF b = <<>> THEN <<>>
  ELSE IF Head(b) = k THEN Tail(b)
  ELSE <<Head(b)>> \o removeFirst(Tail(b), k)

count(b, k) == Cardinality({i \in 1..Len(b) : b[i] = k})

appendMsg(b, kind) == Append(b, kind)

showLoading(b) == Append(b, "loading")

\* getElementById('mxLoadingMsg') finds the first one
hideLoading(b) == removeFirst(b, "loading")

\* The pagination bar and chatState.pagination, as one value.
curPg ==
  [display |-> pagiDisplay, prev |-> prevDisabled, next |-> nextDisabled,
   pagination |-> pagination]

\* mutant: updatePagination without the check of chatState.mode
updatePagination_NoModeCheck(m, p, pg) ==
  IF p = Null \/ p[1].total_pages <= 1
  THEN [pg EXCEPT !.display = "none", !.pagination = Null]
  ELSE [display |-> "flex", prev |-> ~p[1].has_prev, next |-> ~p[1].has_next,
        pagination |-> p]

\* updatePagination(pagination), run while chatState.mode is m
updatePagination(m, p, pg) ==
  IF m # "products" \/ p = Null \/ p[1].total_pages <= 1
  THEN [pg EXCEPT !.display = "none", !.pagination = Null]
  ELSE [display |-> "flex", prev |-> ~p[1].has_prev, next |-> ~p[1].has_next,
        pagination |-> p]

\* appendProducts(list, isNewSearch): cardHTML throws on an entry that is not
\* an object, after the old list was removed and before the new one is added
appendProducts(b, products, isNewSearch) ==
  IF products \notin {"some", "bad"} THEN [body |-> b, threw |-> FALSE]
  ELSE LET b1 == IF isNewSearch THEN removeFirst(b, "list") ELSE b
       IN IF products = "bad" THEN [body |-> b1, threw |-> TRUE]
          ELSE [body |-> Append(b1, "list"), threw |-> FALSE]

\* renderOrders(orderNo, items, fallbackAnswer); orderNo is res.order or the
\* query, never blank.  items: "none", "some", or "bad" (an entry is null)
renderOrders(b, items, answer) ==
  LET b1 == Append(b, "order_head")
  IN IF items = "none"
     THEN [body |-> Append(b1, IF answer THEN "order_text" ELSE "order_notfound"),
           threw |-> FALSE]
     ELSE IF items = "bad" THEN [body |-> b1, threw |-> TRUE]
     ELSE [body |-> Append(b1, "order_cards"), threw |-> FALSE]

idleText(m) == IF m = "orders" THEN "Consultar" ELSE "Enviar"

\* ---------------------------------------------------------------- requests
Request(url, text, page, isNewSearch) ==
  [url |-> url, text |-> text, page |-> page, isNewSearch |-> isNewSearch]

\* fetch(...): the request is issued and its promise is pending
fetch(req) ==
  /\ sent' = Append(sent, req)
  /\ inflight' = inflight \cup {Len(sent) + 1}

\* ==================================================== two-mode (p004, p002)
\* mutant: performSearch that never sets chatState.isLoading
performSearch_NoFlag(b, query, page, isNewSearch) ==
  /\ UNCHANGED isLoading
  /\ submitDisabled' = TRUE
  /\ submitText' = "Buscando..."
  /\ body' = IF isNewSearch THEN showLoading(b) ELSE b
  /\ currentQuery' = IF isNewSearch THEN query ELSE currentQuery
  /\ currentPage' = IF isNewSearch THEN 1 ELSE page
  /\ fetch(Request("/api/chat", currentQuery', page, isNewSearch))

\* performSearch(query, page, isNewSearch), up to and including the fetch;
\* b is the body as the caller left it
performSearch(b, query, page, isNewSearch) ==
  IF isLoading
  THEN /\ body' = b
       /\ UNCHANGED <<isLoading, formVars, currentQuery, currentPage, netVars>>
  ELSE /\ isLoading' = TRUE
       /\ submitDisabled' = TRUE
       /\ submitText' = "Buscando..."
       /\ body' = IF isNewSearch THEN showLoading(b) ELSE b
       /\ currentQuery' = IF isNewSearch THEN query ELSE currentQuery
       /\ currentPage' = IF isNewSearch THEN 1 ELSE page
       /\ fetch(Request("/api/chat", currentQuery', page, isNewSearch))

\* performOrderLookup(query), up to and including the fetch
performOrderLookup(b, query) ==
  IF isLoading
  THEN /\ body' = b
       /\ UNCHANGED <<isLoading, formVars, currentQuery, currentPage, netVars>>
  ELSE /\ isLoading' = TRUE
       /\ submitDisabled' = TRUE
       /\ submitText' = "Consultando..."
       /\ body' = showLoading(b)
       /\ fetch(Request("/api/orders", query, 0, TRUE))
       /\ UNCHANGED <<currentQuery, currentPage>>

\* mutant: the submit listener without the trim of input.value
onSubmit_NoTrim(raw) ==
  IF raw = <<>> \/ isLoading
  THEN UNCHANGED <<body, isLoading, formVars, currentQuery, currentPage,
                   netVars>>
  ELSE LET b == IF ver = "p002" THEN appendMsg(body, "user") ELSE body
       IN IF mode = "products" THEN performSearch(b, raw, 1, TRUE)
          ELSE performOrderLookup(b, raw)

\* the form's submit listener, input.value being raw
onSubmit(raw) ==
  LET q == trim(raw)
  IN IF q = <<>> \/ isLoading
     THEN UNCHANGED <<body, isLoading, formVars, currentQuery, currentPage,
                      netVars>>
     ELSE LET b == IF ver = "p002" THEN appendMsg(body, "user") ELSE body
          IN IF mode = "products" THEN performSearch(b, q, 1, TRUE)
             ELSE performOrderLookup(b, q)

\* the .then(res => ...) of performSearch: what it did until it returned or
\* threw
searchThen(res, isNewSearch) ==
  LET b0 == hideLoading(body)
      isArr == res.products # "none"
      n0 == res.products = "empty"
      b1 == IF ver = "p002"
            THEN IF isArr /\ isNewSearch
                 THEN appendMsg(b0, IF res.answer THEN "msg_answer"
                                    ELSE "msg_default")
                 ELSE b0
            ELSE IF isArr /\ ~n0 /\ isNewSearch /\ res.answer
                 THEN appendMsg(b0, "msg_answer")
                 ELSE b0
      ap == appendProducts(b1, res.products, isNewSearch)
  IN IF isArr /\ ~n0
     THEN IF ap.threw THEN [body |-> ap.body, pg |-> curPg, threw |-> TRUE]
          ELSE [body |-> ap.body,
                pg |-> updatePagination(mode, res.pagination, curPg),
                threw |-> FALSE]
     ELSE IF isArr
     THEN [body |-> IF ver = "p002" \/ isNewSearch
                    THEN appendMsg(b1, "msg_noresults") ELSE b1,
           pg |-> updatePagination(mode, Null, curPg), threw |-> FALSE]
     ELSE [body |-> IF isNewSearch
                    THEN appendMsg(b1, IF res.answer THEN "msg_answer"
                                       ELSE "msg_nomatch")
                    ELSE b1,
           pg |-> updatePagination(mode, Null, curPg), threw |-> FALSE]

\* mutant: a catch handler that leaves the pagination as it is
requestCatch_KeepPagination(b, pg) ==
  [body |-> appendMsg(hideLoading(b), "msg_error"), pg |-> pg, threw |-> FALSE]

\* the .catch(err => ...) of performSearch and of performOrderLookup
requestCatch(b, pg) ==
  [body |-> appendMsg(hideLoading(b), "msg_error"),
   pg |-> updatePagination(mode, Null, pg), threw |-> FALSE]

\* the .then(res => ...) of performOrderLookup
orderThen(res) ==
  LET ro == renderOrders(hideLoading(body), res.items, res.answer)
  IN IF ro.threw THEN [body |-> ro.body, pg |-> curPg, threw |-> TRUE]
     ELSE [body |-> ro.body, pg |-> updatePagination(mode, Null, curPg),
           threw |-> FALSE]

\* the promise chain of a request: then, or catch, or then followed by catch
settle(res, t) ==
  IF ~res.ok THEN requestCatch(body, curPg)
  ELSE IF t.threw THEN requestCatch(t.body, t.pg)
  ELSE t

setPg(pg) ==
  /\ pagiDisplay' = pg.display
  /\ prevDisabled' = pg.prev
  /\ nextDisabled' = pg.next
  /\ pagination' = pg.pagination

\* The user can reach the widget once it is attached to the document.
Mounted == roots >= 1
\* A behaviour holds at most MaxRequests searches typed by the user and at
\* most one request more, that of a click on Prev / Next (in the tabbed
\* widget the buttons are enabled only by a search that overlapped another).
submitted == Cardinality({i \in 1..Len(sent) : sent[i].isNewSearch})
CanRequest == submitted < MaxRequests /\ Len(sent) <= MaxRequests
CanPage == Len(sent) <= MaxRequests

\* submit event of #mxForm, from a click on the enabled submit button (the
\* input is `required`: the browser blocks the click on an empty value)
TM_SubmitClick ==
  /\ TwoMode /\ Mounted /\ CanRequest /\ ~submitDisabled
  /\ \E raw \in Inputs \ {<<>>} :
       /\ onSubmit(raw)
       /\ ev' = [type |-> "submit", raw |-> raw]
  /\ UNCHANGED <<docVars, mode, pagination, shellVars, tabVars, pagiVars,
                 greeted, trackVars>>
  /\ UNCHANGED ordVars

\* keypress Enter in #mxInput: form.dispatchEvent(new Event('submit'))
TM_EnterKey ==
  /\ TwoMode /\ Mounted /\ CanRequest
  /\ \E raw \in Inputs :
       /\ onSubmit(raw)
       /\ ev' = [type |-> "submit", raw |-> raw]
  /\ UNCHANGED <<docVars, mode, pagination, shellVars, tabVars, pagiVars,
                 greeted, trackVars>>
  /\ UNCHANGED ordVars

\* switchMode(m)
switchMode(m) ==
  IF m = mode
  THEN UNCHANGED <<chatVars, submitText, pagiVars, body>>
  ELSE /\ mode' = m
       /\ currentQuery' = <<>>
       /\ currentPage' = 1
       /\ submitText' = idleText(m)
       /\ body' = appendMsg(<<>>, IF m = "products" THEN "msg_prompt_products"
                                  ELSE "msg_prompt_orders")
       /\ setPg(updatePagination(m, Null, [curPg EXCEPT !.pagination = Null]))
       /\ UNCHANGED isLoading

\* click on #mxTabProducts / #mxTabOrders
TM_TabClick ==
  /\ TwoMode /\ Mounted
  /\ \E m \in {"products", "orders"} :
       /\ switchMode(m)
       /\ ev' = [type |-> "tab", tab |-> m]
  /\ UNCHANGED <<docVars, shellVars, tabVars, submitDisabled, netVars,
                 greeted, trackVars>>
  /\ UNCHANGED ordVars

\* the click listener of #mxPrevBtn (d = -1) and of #mxNextBtn (d = 1)
onPageClick(d) ==
  IF /\ mode = "products"
     /\ pagination # Null
     /\ (IF d < 0 THEN pagination[1].has_prev ELSE pagination[1].has_next)
     /\ ~isLoading
  THEN performSearch(body, currentQuery, currentPage + d, FALSE)
  ELSE UNCHANGED <<body, isLoading, formVars, currentQuery, currentPage,
                   netVars>>

\* a click reaches a button that is displayed and not disabled
TM_PrevClick ==
  /\ TwoMode /\ Mounted /\ CanPage
  /\ pagiDisplay # "none" /\ ~prevDisabled
  /\ onPageClick(-1)
  /\ ev' = [type |-> "prev"]
  /\ UNCHANGED <<docVars, mode, pagination, shellVars, tabVars, pagiVars,
                 greeted, trackVars>>
  /\ UNCHANGED ordVars

TM_NextClick ==
  /\ TwoMode /\ Mounted /\ CanPage
  /\ pagiDisplay # "none" /\ ~nextDisabled
  /\ onPageClick(1)
  /\ ev' = [type |-> "next"]
  /\ UNCHANGED <<docVars, mode, pagination, shellVars, tabVars, pagiVars,
                 greeted, trackVars>>
  /\ UNCHANGED ordVars

\* click on the floating button: panel.classList.toggle('mx-open')
TM_FabClick ==
  /\ TwoMode /\ Mounted
  /\ mxOpen' = ~mxOpen
  /\ ev' = [type |-> "fab"]
  /\ UNCHANGED <<docVars, chatVars, isOpen, shellDisplay, launcherDisplay,
                 tabVars, formVars, pagiVars, body, netVars, greeted,
                 trackVars>>
  /\ UNCHANGED ordVars

\* the fetch of request i settles with res and its promise chain runs
TM_Settle ==
  /\ TwoMode
  /\ \E i \in inflight :
       /\ \E res \in (IF sent[i].url = "/api/chat" THEN ChatResponses
                      ELSE OrderResponses) :
            LET chat == sent[i].url = "/api/chat"
                out == settle(res, IF chat
                                   THEN searchThen(res, sent[i].isNewSearch)
                                   ELSE orderThen(res))
            IN /\ body' = out.body
               /\ setPg(out.pg)
               /\ submitText' = IF chat THEN idleText(mode) ELSE "Consultar"
               /\ ev' = [type |-> "settle", ok |-> res.ok,
                         page |-> sent[i].page]
       /\ inflight' = inflight \ {i}
  /\ isLoading' = FALSE
  /\ submitDisabled' = FALSE
  /\ UNCHANGED <<docVars, mode, currentQuery, currentPage, shellVars, tabVars,
                 sent, greeted, trackVars>>
  /\ UNCHANGED ordVars

TMNext ==
  \/ TM_SubmitClick
  \/ TM_EnterKey
  \/ TM_TabClick
  \/ TM_PrevClick
  \/ TM_NextClick
  \/ TM_FabClick
  \/ TM_Settle

\* ====================================================== tabbed (p000, p001)
\* What a POST /api/chat settles with in the tabbed widget.  status: the
\* fetch or resp.json() rejects; the HTTP status is not ok; the body is JSON
\* null; or an answer object.  answer: answer_html ("html"), only answer
\* ("text"), or neither.
TabResponses ==
  [status : {"reject", "http_error", "null"}, answer : {"none"},
   cards : {FALSE}, pagination : {Null}]
  \cup [status : {"ok"}, answer : {"none", "html", "text"}, cards : BOOLEAN,
        pagination : {Null}]
  \cup [status : {"ok"}, answer : {"html"}, cards : {TRUE},
        pagination : {<<p>> : p \in Paginations}]

\* the user sees and reaches the Productos panel
ProductsReachable ==
  /\ Mounted
  /\ ver = "p000" => shellDisplay = "block"
  /\ prodDisplay # "none"

\* setLoading(form, on)
setLoading(on) ==
  [isLoading |-> on, disabled |-> on,
   text |-> IF on THEN "Consultando..." ELSE "Enviar"]

\* updatePaginationUI(), chatState.pagination being p and isLoading loading
updatePaginationUI(p, loading, pg) ==
  IF p = Null THEN [pg EXCEPT !.display = "none", !.pagination = p]
  ELSE [display |-> "block",
        prev |-> (~p[1].has_prev) \/ loading,
        next |-> (~p[1].has_next) \/ loading,
        pagination |-> p]

\* paintProductsAnswer(ans): the messages it appends
paintMessages(b, res) ==
  LET b1 == IF res.answer = "html" \/ (res.answer = "text" /\ ver = "p000")
            THEN appendMsg(b, "msg_answer") ELSE b
  IN IF res.cards THEN appendMsg(b1, "msg_cards") ELSE b1

\* performSearch(q, page, fromUser) up to its first await
tabPerformSearch(q, page, fromUser) ==
  IF trim(q) = <<>>
  THEN UNCHANGED <<body, isLoading, formVars, netVars>>
  ELSE /\ body' = IF fromUser THEN appendMsg(body, "user") ELSE body
       /\ isLoading' = setLoading(TRUE).isLoading
       /\ submitDisabled' = setLoading(TRUE).disabled
       /\ submitText' = setLoading(TRUE).text
       /\ fetch(Request("/api/chat", q, page, fromUser))

\* mutant: performSearch writing chatState.currentQuery / currentPage before
\* the test of resp.ok
tabSearchResume_SetFirst(r, res) ==
  /\ IF res.status = "reject"
     THEN /\ body' = appendMsg(body, "msg_neterror")
          /\ UNCHANGED <<currentQuery, currentPage, pagination, pagiVars>>
     ELSE IF res.status = "http_error"
     THEN /\ currentQuery' = r.text
          /\ currentPage' = r.page
          /\ body' = appendMsg(body, "msg_httperror")
          /\ UNCHANGED <<pagination, pagiVars>>
     ELSE IF res.status = "null"
     THEN /\ currentQuery' = r.text
          /\ currentPage' = r.page
          /\ body' = appendMsg(body, "msg_neterror")
          /\ UNCHANGED <<pagination, pagiVars>>
     ELSE /\ currentQuery' = r.text
          /\ currentPage' = r.page
          /\ body' = paintMessages(body, res)
          /\ setPg(updatePaginationUI(res.pagination, isLoading, curPg))
  /\ isLoading' = setLoading(FALSE).isLoading
  /\ submitDisabled' = setLoading(FALSE).disabled
  /\ submitText' = setLoading(FALSE).text

\* performSearch from its first await to the end of finally, for request r
tabSearchResume(r, res) ==
  /\ IF res.status = "reject"
     THEN /\ body' = appendMsg(body, "msg_neterror")
          /\ UNCHANGED <<currentQuery, currentPage, pagination, pagiVars>>
     ELSE IF res.status = "http_error"
     THEN /\ body' = appendMsg(body, "msg_httperror")
          /\ UNCHANGED <<currentQuery, currentPage, pagination, pagiVars>>
     ELSE IF res.status = "null"
     THEN /\ currentQuery' = r.text
          /\ currentPage' = r.page
          /\ body' = appendMsg(body, "msg_neterror")
          /\ UNCHANGED <<pagination, pagiVars>>
     ELSE /\ currentQuery' = r.text
          /\ currentPage' = r.page
          /\ body' = paintMessages(body, res)
          /\ setPg(updatePaginationUI(res.pagination, isLoading, curPg))
  /\ isLoading' = setLoading(FALSE).isLoading
  /\ submitDisabled' = setLoading(FALSE).disabled
  /\ submitText' = setLoading(FALSE).text

\* submit of #mxForm by a click on its enabled submit button
TAB_SubmitClick ==
  /\ Tabbed /\ ProductsReachable /\ CanRequest /\ ~submitDisabled
  /\ \E raw \in Inputs :
       /\ tabPerformSearch(raw, 1, TRUE)
       /\ ev' = [type |-> "submit"]
  /\ UNCHANGED <<docVars, mode, currentQuery, currentPage, pagination,
                 shellVars, tabVars, pagiVars, greeted, trackVars>>
  /\ UNCHANGED ordVars

\* keypress Enter in #mxInput: formProducts.dispatchEvent(new Event('submit'))
TAB_EnterKey ==
  /\ Tabbed /\ ProductsReachable /\ CanRequest
  /\ \E raw \in Inputs :
       /\ tabPerformSearch(raw, 1, TRUE)
       /\ ev' = [type |-> "submit"]
  /\ UNCHANGED <<docVars, mode, currentQuery, currentPage, pagination,
                 shellVars, tabVars, pagiVars, greeted, trackVars>>
  /\ UNCHANGED ordVars

\* the click listener of mxPrevBtn (d = -1) and of mxNextBtn (d = 1)
tabOnPageClick(d) ==
  IF /\ pagination # Null
     /\ (IF d < 0 THEN pagination[1].has_prev ELSE pagination[1].has_next)
     /\ ~isLoading
  THEN tabPerformSearch(currentQuery, currentPage + d, FALSE)
  ELSE UNCHANGED <<body, isLoading, formVars, netVars>>

TAB_PrevClick ==
  /\ Tabbed /\ ProductsReachable /\ CanPage
  /\ pagiDisplay # "none" /\ ~prevDisabled
  /\ tabOnPageClick(-1)
  /\ ev' = [type |-> "prev"]
  /\ UNCHANGED <<docVars, mode, currentQuery, currentPage, pagination,
                 shellVars, tabVars, pagiVars, greeted, trackVars>>
  /\ UNCHANGED ordVars

TAB_NextClick ==
  /\ Tabbed /\ ProductsReachable /\ CanPage
  /\ pagiDisplay # "none" /\ ~nextDisabled
  /\ tabOnPageClick(1)
  /\ ev' = [type |-> "next"]
  /\ UNCHANGED <<docVars, mode, currentQuery, currentPage, pagination,
                 shellVars, tabVars, pagiVars, greeted, trackVars>>
  /\ UNCHANGED ordVars

\* the fetch of request i settles with res and performSearch resumes
TAB_Settle ==
  /\ Tabbed
  /\ \E i \in inflight :
       /\ \E res \in TabResponses :
            /\ tabSearchResume(sent[i], res)
            /\ ev' = [type |-> "settle", ok |-> res.status = "ok",
                      status |-> res.status]
       /\ inflight' = inflight \ {i}
  /\ UNCHANGED <<docVars, mode, shellVars, tabVars, sent, greeted, trackVars>>
  /\ UNCHANGED ordVars

\* --------------------------------------------- tabbed: open, close, tabs
\* openPanel()
openPanel ==
  /\ isOpen' = TRUE
  /\ shellDisplay' = "block"
  /\ launcherDisplay' = "none"

\* mutant: closePanel that does not show the launcher again
closePanel_KeepLauncher ==
  /\ isOpen' = FALSE
  /\ shellDisplay' = "none"
  /\ UNCHANGED launcherDisplay

\* closePanel()
closePanel ==
  /\ isOpen' = FALSE
  /\ shellDisplay' = "none"
  /\ launcherDisplay' = "inline-flex"

\* click on the launcher
TAB_LauncherClick ==
  /\ ver = "p000" /\ Mounted /\ launcherDisplay # "none"
  /\ openPanel
  /\ ev' = [type |-> "launcher"]
  /\ UNCHANGED <<docVars, chatVars, mxOpen, tabVars, formVars, pagiVars, body,
                 netVars, greeted, trackVars>>
  /\ UNCHANGED ordVars

\* keydown Escape on the document
TAB_Escape ==
  /\ ver = "p000" /\ Mounted
  /\ IF isOpen THEN closePanel
     ELSE UNCHANGED <<isOpen, shellDisplay, launcherDisplay>>
  /\ ev' = [type |-> "escape"]
  /\ UNCHANGED <<docVars, chatVars, mxOpen, tabVars, formVars, pagiVars, body,
                 netVars, greeted, trackVars>>
  /\ UNCHANGED ordVars

\* click on the X of the displayed panel: btnClose carries the listener, its
\* clone in the Mi pedido panel (head.cloneNode) carries none
TAB_CloseClick ==
  /\ ver = "p000" /\ Mounted /\ shellDisplay = "block"
  /\ IF prodDisplay # "none" THEN closePanel
     ELSE UNCHANGED <<isOpen, shellDisplay, launcherDisplay>>
  /\ ev' = [type |-> "close"]
  /\ UNCHANGED <<docVars, chatVars, mxOpen, tabVars, formVars, pagiVars, body,
                 netVars, greeted, trackVars>>
  /\ UNCHANGED ordVars

TabPanels == {"products", "orders"}

\* mutant: switchTab marking the tab buttons of the Productos panel only
switchTab_FirstTabsOnly(name) ==
  /\ prodDisplay' = IF name = "products" THEN "block" ELSE "none"
  /\ ordDisplay' = IF name = "products" THEN "none" ELSE "block"
  /\ tabsActive' = {<<"products", name>>} \cup
                   {pn \in tabsActive : pn[1] # "products"}

\* switchTab(name)
switchTab(name) ==
  /\ prodDisplay' = IF name = "products" THEN "block" ELSE "none"
  /\ ordDisplay' = IF name = "products" THEN "none" ELSE "block"
  /\ tabsActive' = {<<p, name>> : p \in TabPanels}

\* click on a .mx-tab button of the displayed panel
TAB_TabClick ==
  /\ Tabbed /\ Mounted
  /\ ver = "p000" => shellDisplay = "block"
  /\ \E name \in TabPanels :
       /\ switchTab(name)
       /\ ev' = [type |-> "tab", tab |-> name]
  /\ UNCHANGED <<docVars, chatVars, shellVars, formVars, pagiVars, body,
                 netVars, greeted, trackVars>>
  /\ UNCHANGED ordVars

TabNext ==
  \/ TAB_SubmitClick
  \/ TAB_EnterKey
  \/ TAB_PrevClick
  \/ TAB_NextClick
  \/ TAB_Settle
  \/ TAB_LauncherClick
  \/ TAB_Escape
  \/ TAB_CloseClick
  \/ TAB_TabClick

\* ------------------------------------------ tabbed: the order lookup
\* order lookups in one behaviour
MaxLookups == 1

\* What a POST /api/orders/status settles with.  status: the fetch or
\* resp.json() rejects; the HTTP status is not ok; the body is JSON null;
\* data.ok is falsy; or data.ok is truthy, with or without data.answer.
OrderStatusResponses ==
  [status : {"reject", "http_error", "null", "not_ok"}, answer : {FALSE}]
  \cup [status : {"ok"}, answer : BOOLEAN]

\* the Mi pedido panel is displayed to the user
OrdersReachable ==
  /\ Mounted
  /\ ver = "p000" => shellDisplay = "block"
  /\ ordDisplay # "none"

\* setLoadingOrders(form, on)
setLoadingOrders(on) ==
  [disabled |-> on, text |-> IF on THEN "Consultando..." ELSE "Consultar"]

\* performOrderLookup(orderRaw) up to its first await
tabPerformOrderLookup(orderRaw) ==
  IF trim(orderRaw) = <<>>
  THEN UNCHANGED ordVars
  ELSE /\ bodyOrders' = appendMsg(bodyOrders, "user")
       /\ ordersDisabled' = setLoadingOrders(TRUE).disabled
       /\ ordersText' = setLoadingOrders(TRUE).text
       /\ ordersSent' = Append(ordersSent, orderRaw)
       /\ ordersInflight' = ordersInflight \cup {Len(ordersSent) + 1}

\* paintOrderAnswer(md) as called by performOrderLookup for response res
paintOrderAnswer(b, res) ==
  appendMsg(b, IF res.status \in {"reject", "null"} THEN "msg_ordneterror"
               ELSE IF res.status \in {"http_error", "not_ok"}
               THEN "msg_ordunavailable"
               ELSE IF res.answer THEN "msg_ordanswer" ELSE "msg_ordnodata")

\* mutant: performOrderLookup ending with setLoading(formProducts, false)
tabOrderResume_SetLoading(res) ==
  /\ bodyOrders' = paintOrderAnswer(bodyOrders, res)
  /\ ordersDisabled' = setLoadingOrders(FALSE).disabled
  /\ ordersText' = setLoadingOrders(FALSE).text
  /\ isLoading' = setLoading(FALSE).isLoading
  /\ submitDisabled' = setLoading(FALSE).disabled
  /\ submitText' = setLoading(FALSE).text
  /\ UNCHANGED <<mode, currentQuery, currentPage, pagination>>

\* performOrderLookup from its first await to the end of finally
tabOrderResume(res) ==
  /\ bodyOrders' = paintOrderAnswer(bodyOrders, res)
  /\ ordersDisabled' = setLoadingOrders(FALSE).disabled
  /\ ordersText' = setLoadingOrders(FALSE).text
  /\ UNCHANGED <<chatVars, formVars>>

\* submit of #mxOrderForm, by a click on its enabled submit button or by
\* Enter in #mxOrderInput (implicit submission, blocked while it is disabled)
TAB_OrderSubmit ==
  /\ Tabbed /\ OrdersReachable /\ ~ordersDisabled
  /\ Len(ordersSent) < MaxLookups
  /\ \E raw \in Inputs :
       /\ tabPerformOrderLookup(raw)
       /\ ev' = [type |-> "order_submit", raw |-> raw]
  /\ UNCHANGED <<docVars, chatVars, shellVars, tabVars, formVars, pagiVars,
                 body, netVars, greeted, trackVars>>

\* the fetch of lookup i settles with res and performOrderLookup resumes
TAB_OrderSettle ==
  /\ Tabbed
  /\ \E i \in ordersInflight :
       /\ \E res \in OrderStatusResponses :
            /\ tabOrderResume(res)
            /\ ev' = [type |-> "order_settle", status |-> res.status]
       /\ ordersInflight' = ordersInflight \ {i}
  /\ UNCHANGED <<docVars, shellVars, tabVars, pagiVars, body, netVars,
                 greeted, trackVars, ordersSent>>

OrdNext ==
  \/ TAB_OrderSubmit
  \/ TAB_OrderSettle

\* ================================================ mounting (all versions)
\* mutant: initWidget without the check for an existing .mx-root
initWidget_NoGuard(r) == r + 1

\* initWidget(), as its effect on the number of .mx-root elements
initWidget(r) == IF r >= 1 THEN r ELSE r + 1

RECURSIVE initWidgetTimes(_, _)
\* the DOMContentLoaded listeners of n executions, run one after the other
initWidgetTimes(n, r) ==
  IF n = 0 THEN r ELSE initWidgetTimes(n - 1, initWidget(r))

MaxRunsOf(v) == IF v = "p000" THEN MaxRuns ELSE 1

\* The script executes.  p000 mounts at once unless the document is still
\* loading; p004, p002 and p001 only add DOMContentLoaded listeners; widget
\* and p003 attach their root at once.
ExecScript ==
  /\ runs < MaxRunsOf(ver)
  /\ runs' = runs + 1
  /\ IF Chat
     THEN roots' = roots + 1 /\ UNCHANGED dclListeners
     ELSE IF ver = "p000" /\ readyState # "loading"
     THEN roots' = initWidget(roots) /\ UNCHANGED dclListeners
     ELSE dclListeners' = dclListeners + 1 /\ UNCHANGED roots
  /\ ev' = [type |-> "exec"]
  /\ UNCHANGED <<ver, readyState, chatVars, shellVars, tabVars, formVars,
                 pagiVars, body, netVars, greeted, trackVars>>
  /\ UNCHANGED ordVars

\* DOMContentLoaded fires, once; its listeners run in order
DOMContentLoaded ==
  /\ readyState = "loading"
  /\ readyState' = "interactive"
  /\ dclListeners' = 0
  /\ roots' = IF ver = "p000" THEN initWidgetTimes(dclListeners, roots)
              ELSE roots + dclListeners
  /\ body' = IF ver = "p002" /\ dclListeners > 0
             THEN appendMsg(body, "greeting") ELSE body
  /\ ev' = [type |-> "DOMContentLoaded"]
  /\ UNCHANGED <<ver, runs, chatVars, shellVars, tabVars, formVars, pagiVars,
                 netVars, greeted, trackVars>>
  /\ UNCHANGED ordVars

DocNext ==
  \/ ExecScript
  \/ DOMContentLoaded

\* ================================================= tracking (widget.js)
\* A payload is an object: a set of <<key, value>> pairs.
HasKey(o, k) == \E kv \in o : kv[1] = k

\* { event: eventName, ...payload }
Entry(eventName, payload) ==
  {kv \in {<<"event", eventName>>} : ~HasKey(payload, "event")} \cup payload

FbqKinds == {"absent", "function", "throws"}
\* window.MAXTER_TRACK_ENDPOINT: undefined or "", "   ", a URL, or a value
\* that is not a string (a number)
EndpointKinds == {"absent", "blank", "url", "nonstring"}
\* window.dataLayer when the script starts: undefined, an array, or a value
\* whose push throws
DataLayerKinds == {"absent", "array", "broken"}
Envs == [fbq : FbqKinds, endpoint : EndpointKinds, sendBeacon : BOOLEAN]
\* a page without analytics
NoSinks == [fbq |-> "absent", endpoint |-> "absent", sendBeacon |-> FALSE]

\* the tracking sinks, as one value; raised: an exception is propagating
curSinks ==
  [tracked |-> tracked, dataLayer |-> dataLayer, fbqCalls |-> fbqCalls,
   beacons |-> beacons, threw |-> trackThrew, raised |-> FALSE]

\* try { ... } catch {}
swallow(s) == [s EXCEPT !.raised = FALSE]

\* dl = window.dataLayer = window.dataLayer || []; dl.push({event, ...payload})
ga4Block(s, eventName, payload) ==
  IF s.dataLayer.kind = "broken" THEN [s EXCEPT !.raised = TRUE]
  ELSE [s EXCEPT !.dataLayer =
          [kind |-> "array",
           items |-> Append(s.dataLayer.items, Entry(eventName, payload))]]

\* GA4
trackGA4(s, eventName, payload) == swallow(ga4Block(s, eventName, payload))

FbqCall(method, name, payload) ==
  [method |-> method, name |-> name, payload |-> payload]

\* mutant: the Meta Pixel block sending the ViewContent hint for every event
pixelBlock_HintAlways(s, eventName, payload) ==
  IF env.fbq = "absent" THEN s
  ELSE LET c1 == Append(s.fbqCalls, FbqCall("trackCustom", eventName, payload))
           c2 == Append(c1, FbqCall("track", "ViewContent", payload))
       IN IF env.fbq = "throws"
          THEN [s EXCEPT !.fbqCalls = c1, !.raised = TRUE]
          ELSE [s EXCEPT !.fbqCalls = c2]

\* if (typeof window.fbq === "function") { trackCustom; ViewContent; AddToCart }
\* (the two hints carry fields read from the payload)
pixelBlock(s, eventName, payload) ==
  IF env.fbq = "absent" THEN s
  ELSE LET c1 == Append(s.fbqCalls, FbqCall("trackCustom", eventName, payload))
           c2 == IF eventName = "maxter_view_product"
                 THEN Append(c1, FbqCall("track", "ViewContent", payload))
                 ELSE c1
           c3 == IF eventName = "maxter_buy_click"
                 THEN Append(c2, FbqCall("track", "AddToCart", payload))
                 ELSE c2
       IN IF env.fbq = "throws"
          THEN [s EXCEPT !.fbqCalls = c1, !.raised = TRUE]
          ELSE [s EXCEPT !.fbqCalls = c3]

\* mutant: the Meta Pixel block outside any try/catch
trackPixel_NoCatch(s, eventName, payload) == pixelBlock(s, eventName, payload)

\* Meta Pixel
trackPixel(s, eventName, payload) == swallow(pixelBlock(s, eventName, payload))

\* the blob of a beacon: { t: Date.now(), event: eventName, payload }
BeaconBody(eventName, payload) == [event |-> eventName, payload |-> payload]

\* url = (window.MAXTER_TRACK_ENDPOINT || "").trim();
\* if (url && navigator.sendBeacon) navigator.sendBeacon(url, blob)
beaconBlock(s, eventName, payload) ==
  IF env.endpoint = "nonstring" THEN [s EXCEPT !.raised = TRUE]
  ELSE IF env.endpoint = "url" /\ env.sendBeacon
  THEN [s EXCEPT !.beacons = Append(s.beacons, BeaconBody(eventName, payload))]
  ELSE s

\* Beacon
trackBeacon(s, eventName, payload) == swallow(beaconBlock(s, eventName, payload))

\* a statement runs unless an exception is propagating
then2(s, t) == IF s.raised THEN s ELSE t

\* track(eventName, payload)
track(s, eventName, payload) ==
  LET s0 == [s EXCEPT !.tracked = Append(s.tracked, <<eventName, payload>>)]
      s1 == trackGA4(s0, eventName, payload)
      s2 == then2(s1, trackPixel(s1, eventName, payload))
      s3 == then2(s2, trackBeacon(s2, eventName, payload))
  IN [s3 EXCEPT !.threw = s3.threw \/ s3.raised, !.raised = FALSE]

\* part_003 is widget.js without the calls of track
trackIf(s, eventName, payload) ==
  IF ver = "widget" THEN track(s, eventName, payload) ELSE s

setSinks(s) ==
  /\ tracked' = s.tracked
  /\ dataLayer' = s.dataLayer
  /\ fbqCalls' = s.fbqCalls
  /\ beacons' = s.beacons
  /\ trackThrew' = s.threw
  /\ UNCHANGED env

\* room for k more calls of track, beside the two each pending query makes
TrackRoom(k) ==
  ver = "widget" => Len(tracked) + 2 * Cardinality(inflight) + k <= MaxTracked

\* =============================================== chat (widget.js, p003)
\* What a POST /api/chat settles with in the chat widget.  products: "none"
\* (no array), "empty" ([]), "some" (one product), "many" (ManyLen products),
\* "bad" (an entry is null), "markup" (one product whose title is markup that
\* swallows the rest of the card, as "<!--" does, so that the card has no
\* .mx-btn--buy and no .mx-link element).
SendResponses ==
  [status : {"reject", "null"}, answer : {FALSE}, products : {"none"}]
  \cup [status : {"ok"}, answer : BOOLEAN,
        products : {"none", "empty", "some", "many", "bad", "markup"}]

\* the entries of a products value whose entries are all objects; the titles
\* of a long list run downwards, so that their order shows
productList(products) ==
  IF products \in {"some", "markup"} THEN <<[title |-> 1]>>
  ELSE IF products = "many" THEN [i \in 1..ManyLen |-> [title |-> ManyLen + 1 - i]]
  ELSE <<>>

\* number of entries of a products value
productCount(products) ==
  IF products = "bad" THEN 1 ELSE Len(productList(products))

\* products.slice(0, 20)
ImpressionLimit == 20
slice(ps) ==
  IF Len(ps) <= ImpressionLimit THEN ps ELSE SubSeq(ps, 1, ImpressionLimit)

\* mutant: trackImpressions counting the items it sends
trackImpressions_CountItems(s, products, q) ==
  LET items == [i \in 1..Len(slice(productList(products))) |->
                  [index |-> i - 1, title |-> productList(products)[i].title]]
  IN track(s, "maxter_products_shown",
           {<<"query", q>>, <<"items_count", Len(items)>>, <<"items", items>>})

\* trackImpressions(products, queryText); of a product the title stands for
\* its title, price and product_url
trackImpressions(s, products, q) ==
  LET items == [i \in 1..Len(slice(productList(products))) |->
                  [index |-> i - 1, title |-> productList(products)[i].title]]
  IN track(s, "maxter_products_shown",
           {<<"query", q>>, <<"items_count", Len(productList(products))>>,
            <<"items", items>>})

\* open()
open(s) == [mxOpen |-> TRUE, sinks |-> trackIf(s, "maxter_panel_open", {})]

\* close()
close(s) == [mxOpen |-> FALSE, sinks |-> trackIf(s, "maxter_panel_close", {})]

\* the first click listener of the floating button
fabToggle(s) == IF mxOpen THEN close(s) ELSE open(s)

\* mutant: the greeting listener without the greeted flag
fabGreet_NoFlag(o, s) ==
  IF o
  THEN [body |-> appendMsg(body, "greeting"), greeted |-> TRUE,
        sinks |-> trackIf(s, "maxter_greeting_shown", {})]
  ELSE [body |-> body, greeted |-> greeted, sinks |-> s]

\* the second click listener of the floating button, the panel being o
fabGreet(o, s) ==
  IF ~greeted /\ o
  THEN [body |-> appendMsg(body, "greeting"), greeted |-> TRUE,
        sinks |-> trackIf(s, "maxter_greeting_shown", {})]
  ELSE [body |-> body, greeted |-> greeted, sinks |-> s]

\* click on the floating button: both listeners, in the order they were added
CH_FabClick ==
  /\ Chat /\ Mounted /\ TrackRoom(2)
  /\ LET t == fabToggle(curSinks)
         g == fabGreet(t.mxOpen, t.sinks)
     IN /\ mxOpen' = t.mxOpen
        /\ body' = g.body
        /\ greeted' = g.greeted
        /\ setSinks(g.sinks)
  /\ ev' = [type |-> "fab"]
  /\ UNCHANGED <<docVars, chatVars, isOpen, shellDisplay, launcherDisplay,
                 tabVars, formVars, pagiVars, netVars>>
  /\ UNCHANGED ordVars

\* click on the X of the panel
CH_CloseClick ==
  /\ Chat /\ Mounted /\ TrackRoom(1)
  /\ mxOpen' = close(curSinks).mxOpen
  /\ setSinks(close(curSinks).sinks)
  /\ ev' = [type |-> "close"]
  /\ UNCHANGED <<docVars, chatVars, isOpen, shellDisplay, launcherDisplay,
                 tabVars, formVars, pagiVars, body, netVars, greeted>>
  /\ UNCHANGED ordVars

\* sendQuery() up to its first await, txt.value being raw
sendQuery(raw) ==
  LET q == trim(raw)
  IN IF q = <<>>
     THEN UNCHANGED <<body, submitDisabled, netVars, trackVars>>
     ELSE /\ body' = appendMsg(body, "user")
          /\ submitDisabled' = TRUE
          /\ setSinks(trackIf(curSinks, "maxter_query_sent", {<<"query", q>>}))
          /\ fetch(Request("/api/chat", q, 0, TRUE))

\* renderProducts(products, queryText): reading p.price of a null entry
\* throws in both versions; widget.js also binds the click tracking with
\* card.querySelector(".mx-btn--buy").addEventListener, which throws when the
\* card has no such element; the list is attached after the loop
renderProducts(b, s, products, q) ==
  IF products \in {"none", "empty"} THEN [body |-> b, sinks |-> s]
  ELSE IF products = "bad" THEN [body |-> b, sinks |-> [s EXCEPT !.raised = TRUE]]
  ELSE IF products = "markup" /\ ver = "widget"
  THEN [body |-> b, sinks |-> [s EXCEPT !.raised = TRUE]]
  ELSE [body |-> Append(b, "list"),
        sinks |-> IF ver = "widget" THEN trackImpressions(s, products, q)
                  ELSE s]

\* mutant: maxter_query_answered tracked before the products are rendered
sendTry_TrackFirst(res, q) ==
  LET b1 == appendMsg(body, IF res.status = "ok" /\ res.answer
                            THEN "msg_answer" ELSE "msg_fallback")
      s1 == trackIf(curSinks, "maxter_query_answered",
                    {<<"query", q>>,
                     <<"products", productCount(res.products)>>})
  IN IF res.status = "null"
     THEN [body |-> b1, sinks |-> [curSinks EXCEPT !.raised = TRUE]]
     ELSE renderProducts(b1, s1, res.products, q)

\* the try block of sendQuery after the fetch resolved
sendTry(res, q) ==
  LET b1 == appendMsg(body, IF res.status = "ok" /\ res.answer
                            THEN "msg_answer" ELSE "msg_fallback")
  IN IF res.status = "null"
     THEN [body |-> b1, sinks |-> [curSinks EXCEPT !.raised = TRUE]]
     ELSE LET rp == renderProducts(b1, curSinks, res.products, q)
          IN IF rp.sinks.raised THEN rp
             ELSE [body |-> rp.body,
                   sinks |-> trackIf(rp.sinks, "maxter_query_answered",
                                     {<<"query", q>>,
                                      <<"products", productCount(res.products)>>})]

\* the catch block of sendQuery
sendCatch(t) ==
  [body |-> appendMsg(t.body, "msg_error"),
   sinks |-> trackIf(swallow(t.sinks), "maxter_query_error",
                     {<<"message", "error">>})]

\* mutant: sendQuery enabling the send button at the end of try, not in finally
sendResume_NoFinally(res, q) ==
  LET t == IF res.status = "reject"
           THEN [body |-> body, sinks |-> [curSinks EXCEPT !.raised = TRUE]]
           ELSE sendTry(res, q)
      out == IF t.sinks.raised THEN sendCatch(t) ELSE t
  IN /\ body' = out.body
     /\ setSinks(out.sinks)
     /\ submitDisabled' = IF t.sinks.raised THEN submitDisabled ELSE FALSE

\* sendQuery from its first await to the end of finally
sendResume(res, q) ==
  LET t == IF res.status = "reject"
           THEN [body |-> body, sinks |-> [curSinks EXCEPT !.raised = TRUE]]
           ELSE sendTry(res, q)
      out == IF t.sinks.raised THEN sendCatch(t) ELSE t
  IN /\ body' = out.body
     /\ setSinks(out.sinks)
     /\ submitDisabled' = FALSE

\* click on the enabled send button
CH_SendClick ==
  /\ Chat /\ Mounted /\ CanRequest /\ TrackRoom(3) /\ ~submitDisabled
  /\ \E raw \in Inputs :
       /\ sendQuery(raw)
       /\ ev' = [type |-> "submit", q |-> trim(raw)]
  /\ UNCHANGED <<docVars, chatVars, shellVars, tabVars, submitText, pagiVars,
                 greeted>>
  /\ UNCHANGED ordVars

\* keydown Enter in the text input
CH_EnterKey ==
  /\ Chat /\ Mounted /\ CanRequest /\ TrackRoom(3)
  /\ \E raw \in Inputs :
       /\ sendQuery(raw)
       /\ ev' = [type |-> "submit", q |-> trim(raw)]
  /\ UNCHANGED <<docVars, chatVars, shellVars, tabVars, submitText, pagiVars,
                 greeted>>
  /\ UNCHANGED ordVars

\* the fetch of request i settles with res and sendQuery resumes
CH_Settle ==
  /\ Chat
  /\ \E i \in inflight :
       /\ \E res \in SendResponses :
            /\ sendResume(res, sent[i].text)
            /\ ev' = [type |-> "settle", req |-> i, ok |-> res.status # "reject",
                      res |-> res]
       /\ inflight' = inflight \ {i}
  /\ UNCHANGED <<docVars, chatVars, shellVars, tabVars, submitText, pagiVars,
                 sent, greeted>>
  /\ UNCHANGED ordVars

ChatNext ==
  \/ CH_FabClick
  \/ CH_CloseClick
  \/ CH_SendClick
  \/ CH_EnterKey
  \/ CH_Settle

\* ============================================================ the system
Init ==
  /\ ver \in Versions
  /\ readyState = "loading"
  /\ runs = 0
  /\ dclListeners = 0
  /\ roots = 0
  /\ mode = "products"
  /\ currentQuery = <<>>
  /\ currentPage = 1
  /\ pagination = Null
  /\ isLoading = FALSE
  /\ isOpen = FALSE
  /\ shellDisplay = "none"
  /\ launcherDisplay = ""
  /\ mxOpen = FALSE
  /\ prodDisplay = ""
  /\ ordDisplay = "none"
  /\ tabsActive = {<<p, "products">> : p \in TabPanels}
  /\ submitDisabled = FALSE
  /\ submitText = "Enviar"
  /\ pagiDisplay = "none"
  /\ prevDisabled = FALSE
  /\ nextDisabled = FALSE
  /\ body = IF ver \in {"p004", "p000", "p001"} THEN <<"greeting">> ELSE <<>>
  /\ sent = <<>>
  /\ inflight = {}
  /\ ev = NoEvent
  /\ greeted = FALSE
  /\ tracked = <<>>
  /\ env \in (IF ver = "widget" THEN Envs ELSE {NoSinks})
  /\ dataLayer \in (IF ver = "widget"
                    THEN {[kind |-> k, items |-> <<>>] : k \in DataLayerKinds}
                    ELSE {[kind |-> "absent", items |-> <<>>]})
  /\ fbqCalls = <<>>
  /\ beacons = <<>>
  /\ trackThrew = FALSE
  /\ bodyOrders = IF ver \in {"p000", "p001"} THEN <<"msg_orders_intro">>
                  ELSE <<>>
  /\ ordersDisabled = FALSE
  /\ ordersText = "Consultar"
  /\ ordersSent = <<>>
  /\ ordersInflight = {}

Next ==
  \/ DocNext
  \/ TMNext
  \/ TabNext
  \/ OrdNext
  \/ ChatNext

\* every version, every environment
Spec == Init /\ [][Next]_vars

\* ---- the two-mode widget (p004, p002)
InitTM == Init /\ TwoMode
NextTM == DocNext \/ TMNext
SpecTM == InitTM /\ [][NextTM]_vars

\* ---- the tabbed widget (p000, p001)
InitTab == Init /\ Tabbed
NextTab == DocNext \/ TabNext
SpecTab == InitTab /\ [][NextTab]_vars

\* ---- the tabbed widget with its two flows side by side: order lookups,
\* and product searches sent with the button
NextOrders ==
  \/ DocNext
  \/ TAB_LauncherClick
  \/ TAB_TabClick
  \/ TAB_SubmitClick
  \/ TAB_Settle
  \/ OrdNext
SpecOrders == InitTab /\ [][NextOrders]_vars

\* ---- the chat widget (widget.js, p003).  The sinks only record and never
\* steer the widget (SpecTrack covers every environment), so the page is one
\* where every sink works or one where every sink throws.
AllWork == [fbq |-> "function", endpoint |-> "url", sendBeacon |-> TRUE]
AllThrow == [fbq |-> "throws", endpoint |-> "nonstring", sendBeacon |-> TRUE]
InitChat ==
  /\ Init
  /\ Chat
  /\ ver = "widget" =>
       \/ env = AllWork /\ dataLayer.kind = "absent"
       \/ env = AllThrow /\ dataLayer.kind = "broken"
NextChat == DocNext \/ ChatNext
SpecChat == InitChat /\ [][NextChat]_vars

\* ---- the widgets with a loading state, every pending fetch settling
InitLive == InitTM \/ InitChat
NextLive == DocNext \/ TMNext \/ ChatNext
SpecLive ==
  InitLive /\ [][NextLive]_vars /\ WF_vars(TM_Settle) /\ WF_vars(CH_Settle)

\* ---- the versions that mount in a DOMContentLoaded listener (p004, p002,
\* p001).  The page runs the script and the document finishes loading, in
\* either order.
InitMount == Init /\ ver \in {"p004", "p002", "p001"}
NextMount ==
  \/ DocNext
  \/ TMNext
  \/ TAB_TabClick
SpecMount ==
  InitMount /\ [][NextMount]_vars
  /\ WF_vars(ExecScript) /\ WF_vars(DOMContentLoaded)

\* ---- track(eventName, payload) alone, in every environment
EventNames ==
  {"maxter_panel_open", "maxter_query_sent", "maxter_view_product",
   "maxter_buy_click"}
Payloads == {{}, {<<"query", <<"a">>>>}, {<<"event", "other">>}}
\* calls of track in a behaviour of SpecTrack
MaxCalls == 2

\* some caller calls track(eventName, payload)
TrackCall ==
  /\ Len(tracked) < MaxCalls
  /\ \E e \in EventNames, pl \in Payloads :
       /\ setSinks(track(curSinks, e, pl))
       /\ ev' = [type |-> "track"]
  /\ UNCHANGED <<docVars, chatVars, shellVars, tabVars, formVars, pagiVars,
                 body, netVars, greeted>>
  /\ UNCHANGED ordVars

InitTrack == Init /\ ver = "widget"
NextTrack == TrackCall
SpecTrack == InitTrack /\ [][NextTrack]_vars

\* ================================================================ claims
Last(q) == q[Len(q)]
notLoading(x) == x # "loading"

\* C1: in the two-mode widget a submit whose trimmed input is non-empty,
\* made while chatState.isLoading is false, issues exactly one POST: to
\* /api/chat with message = the trimmed input and page = 1 in mode products,
\* to /api/orders with order = the trimmed input in mode orders; a submit
\* with blank input or made while loading issues no request.
C1_SubmitIssuesOnePost ==
  [][(TwoMode /\ ev'.type = "submit") =>
       IF trim(ev'.raw) # <<>> /\ ~isLoading
       THEN /\ Len(sent') = Len(sent) + 1
            /\ SubSeq(sent', 1, Len(sent)) = sent
            /\ inflight' = inflight \cup {Len(sent')}
            /\ Last(sent').text = trim(ev'.raw)
            /\ IF mode = "products"
               THEN Last(sent').url = "/api/chat" /\ Last(sent').page = 1
               ELSE Last(sent').url = "/api/orders"
       ELSE sent' = sent /\ inflight' = inflight]_vars

\* C1 witness: an order lookup was issued from input that needed trimming
C1_Witness ==
  /\ TwoMode
  /\ ev.type = "submit"
  /\ ev.raw # trim(ev.raw)
  /\ mode = "orders"
  /\ sent # <<>>
  /\ Last(sent).url = "/api/orders"
  /\ Len(sent) \in inflight

\* C2: in the two-mode widget, whenever chatState.mode is 'orders' the
\* pagination bar is hidden and chatState.pagination is null.
C2_NoPaginationInOrders ==
  (TwoMode /\ mode = "orders") => (pagiDisplay = "none" /\ pagination = Null)

\* C2 witness: a product search answered with a list after the user had
\* switched to the orders tab (the switch cleared the body)
C2_Witness ==
  /\ TwoMode
  /\ mode = "orders"
  /\ ev.type = "settle"
  /\ ev.ok
  /\ count(body, "list") = 1

\* C4: in the two-mode widget, when a request's fetch rejects (or its body
\* is not JSON) the catch handler appends exactly one error message, removes
\* the loading indicator, clears isLoading, enables the submit button, hides
\* the pagination bar and sets chatState.pagination to null.
C4_CatchResets ==
  [][(TwoMode /\ ev'.type = "settle" /\ ~ev'.ok) =>
       /\ body' = Append(SelectSeq(body, notLoading), "msg_error")
       /\ ~isLoading'
       /\ ~submitDisabled'
       /\ pagiDisplay' = "none"
       /\ pagination' = Null]_vars

\* C4 witness: the request of a Prev/Next click (made from a displayed
\* pagination bar) was rejected
C4_Witness ==
  /\ TwoMode
  /\ ev.type = "settle"
  /\ ~ev.ok
  /\ inflight = {}
  /\ Len(sent) = 2
  /\ ~sent[2].isNewSearch
  /\ count(body, "msg_error") = 1
  /\ count(body, "list") = 1

\* C3: in the tabbed widget, after a product search succeeded with
\* pagination.has_next = true and the request has finished (isLoading is
\* false again) the Next button is enabled; likewise Prev with has_prev.
C3_PageButtonsEnabled ==
  (Tabbed /\ ~isLoading /\ inflight = {} /\ pagination # Null) =>
    /\ pagination[1].has_next => (pagiDisplay # "none" /\ ~nextDisabled)
    /\ pagination[1].has_prev => (pagiDisplay # "none" /\ ~prevDisabled)

\* C5: every request issued is eventually followed by a state in which the
\* loading flag is cleared and the submit / send button is enabled
\* (two-mode: chatState.isLoading = false and #mxSubmitBtn enabled; chat:
\* send.disabled = false), every fetch settling.
C5_LoadingEnds ==
  (inflight # {}) ~> (~submitDisabled /\ (TwoMode => ~isLoading))

\* C5 witness: the chat widget after two overlapping queries both settled
C5_Witness ==
  /\ ver = "widget"
  /\ Len(sent) = 2
  /\ inflight = {}
  /\ ev.type = "settle"
  /\ ~submitDisabled

\* C6: track never throws to its caller; each call pushes its entry
\* {event, ...payload} to window.dataLayer (created if absent) exactly once,
\* whatever window.fbq is or does; and the beacon is attempted on each call
\* when the endpoint is a non-blank string and navigator.sendBeacon exists,
\* even where the dataLayer push or fbq threw.
C6_TrackSinksIndependent ==
  /\ ~trackThrew
  /\ dataLayer.kind # "broken" =>
       /\ dataLayer.items =
            [i \in 1..Len(tracked) |-> Entry(tracked[i][1], tracked[i][2])]
       /\ tracked # <<>> => dataLayer.kind = "array"
  /\ (env.endpoint = "url" /\ env.sendBeacon) =>
       beacons =
         [i \in 1..Len(tracked) |-> BeaconBody(tracked[i][1], tracked[i][2])]

\* C6 witness: two calls on a page whose dataLayer push and fbq both throw,
\* each followed by its beacon
C6_Witness ==
  /\ Len(tracked) >= 2
  /\ env.fbq = "throws"
  /\ dataLayer.kind = "broken"
  /\ env.endpoint = "url"
  /\ env.sendBeacon
  /\ Len(beacons) = Len(tracked)
  /\ Len(fbqCalls) = Len(tracked)

\* number of calls of track with event name
tracks(name) == Cardinality({i \in 1..Len(tracked) : tracked[i][1] = name})

\* C7: in widget.js every sendQuery with non-blank input emits
\* maxter_query_sent exactly once, and once its fetch settled exactly one of
\* maxter_query_answered and maxter_query_error; maxter_query_answered is
\* emitted only if the answer and the products were rendered without an
\* exception (no error message was appended).
C7_QueryEvents ==
  ver = "widget" =>
    /\ tracks("maxter_query_sent") = Len(sent)
    /\ tracks("maxter_query_answered") + tracks("maxter_query_error")
         = Len(sent) - Cardinality(inflight)
    /\ tracks("maxter_query_error") = count(body, "msg_error")
    /\ tracks("maxter_query_answered") <=
         count(body, "msg_answer") + count(body, "msg_fallback")

\* C7 witness: two queries settled, one answered and one failed after its
\* fallback answer had been appended
C7_Witness ==
  /\ ver = "widget"
  /\ Len(sent) = 2
  /\ inflight = {}
  /\ tracks("maxter_query_answered") = 1
  /\ tracks("maxter_query_error") = 1
  /\ count(body, "msg_fallback") = 2

\* C8: in widget.js and part_003 the greeting is appended on the first click
\* of the floating button and never again: after any click of it the body
\* holds the greeting exactly once, it never holds it twice and never loses
\* it, and widget.js has tracked maxter_greeting_shown once per greeting.
C8_GreetingOnce ==
  /\ [](Chat => /\ count(body, "greeting") <= 1
                /\ ver = "widget" =>
                     tracks("maxter_greeting_shown") = count(body, "greeting"))
  /\ [][Chat => /\ ev'.type = "fab" => count(body', "greeting") = 1
                /\ count(body', "greeting") >= count(body, "greeting")]_vars

\* C8 witness: the panel re-opened by a second opening click
C8_Witness ==
  /\ ver = "widget"
  /\ ev.type = "fab"
  /\ mxOpen
  /\ tracks("maxter_panel_open") = 2
  /\ count(body, "greeting") = 1

\* C9: in part_000 the shell starts hidden and the launcher visible, and in
\* every reachable state state.isOpen is true exactly when the shell is
\* displayed and exactly when the launcher is hidden.
C9_OpenMatchesDisplay ==
  ver = "p000" =>
    /\ ev = NoEvent => (shellDisplay = "none" /\ launcherDisplay # "none")
    /\ isOpen <=> shellDisplay = "block"
    /\ isOpen <=> launcherDisplay = "none"

\* C9 witness: the panel was opened and then closed with Escape
C9_Witness ==
  /\ ver = "p000"
  /\ ev.type = "escape"
  /\ ~isOpen
  /\ launcherDisplay = "inline-flex"

\* C10: in part_000 the document never holds more than one .mx-root, holds
\* exactly one once DOMContentLoaded has fired and the script has executed,
\* whatever the number of executions before and after the event, and an
\* execution on a document that has one changes nothing of the widget.
C10_MountedOnce ==
  /\ [](ver = "p000" =>
          /\ roots <= 1
          /\ (readyState # "loading" /\ runs >= 1) => roots = 1)
  /\ [][(ver = "p000" /\ ev'.type = "exec" /\ roots >= 1) =>
          UNCHANGED <<roots, chatVars, shellVars, tabVars, formVars, pagiVars,
                      body, netVars>>]_vars

\* C10 witness: a second execution, after DOMContentLoaded, of a script that
\* first executed while the document was loading
C10_Witness ==
  /\ ver = "p000"
  /\ runs = 2
  /\ ev.type = "exec"
  /\ readyState # "loading"
  /\ roots = 1

\* C11: in part_000 a click on the X of the displayed panel closes the
\* widget (state.isOpen false, shell hidden, launcher shown), whether the
\* Productos or the Mi pedido panel is the one displayed.
C11_CloseButtonCloses ==
  [][(ver = "p000" /\ ev'.type = "close") =>
       /\ ~isOpen'
       /\ shellDisplay' = "none"
       /\ launcherDisplay' = "inline-flex"]_vars

isCustom(c) == c.method = "trackCustom"
isStandard(c) == c.method = "track"
\* number of standard fbq calls with name
standard(name) ==
  Cardinality({i \in 1..Len(fbqCalls) :
                 isStandard(fbqCalls[i]) /\ fbqCalls[i].name = name})

\* C12: in widget.js, window.fbq being a function, the trackCustom calls are
\* one per tracked event, in order, with its name and payload; ViewContent
\* is sent once per maxter_view_product and AddToCart once per
\* maxter_buy_click, and there is no other standard call.
C12_PixelCalls ==
  (ver = "widget" /\ env.fbq = "function") =>
    /\ SelectSeq(fbqCalls, isCustom) =
         [i \in 1..Len(tracked) |->
            FbqCall("trackCustom", tracked[i][1], tracked[i][2])]
    /\ standard("ViewContent") = tracks("maxter_view_product")
    /\ standard("AddToCart") = tracks("maxter_buy_click")
    /\ Len(SelectSeq(fbqCalls, isStandard)) =
         standard("ViewContent") + standard("AddToCart")

\* C12 witness: a product view and a query, tracked on a page with fbq
C12_Witness ==
  /\ ver = "widget"
  /\ env.fbq = "function"
  /\ tracks("maxter_view_product") = 1
  /\ tracks("maxter_query_sent") = 1
  /\ Len(fbqCalls) = 3

\* C13: in the two-mode widget at most one request is in flight at any time
\* and chatState.isLoading is true exactly while one is.
C13_OneRequestInFlight ==
  TwoMode => /\ Cardinality(inflight) <= 1
             /\ isLoading <=> inflight # {}

\* C13 witness: Enter pressed with another text while the first request was
\* pending, after a tab switch; no second request was issued
C13_Witness ==
  /\ TwoMode
  /\ ev.type = "submit"
  /\ trim(ev.raw) # <<>>
  /\ mode = "orders"
  /\ inflight = {1}
  /\ Len(sent) = 1
  /\ sent[1].url = "/api/chat"
  /\ sent[1].text # trim(ev.raw)

\* C14: in widget.js and part_003 the send button is disabled in every state
\* in which at least one /api/chat request is in flight.
C14_SendDisabledWhileInFlight ==
  Chat => (inflight # {} => submitDisabled)

\* no product search of the tabbed widget has failed so far
noSearchFailed ==
  count(body, "msg_neterror") = 0 /\ count(body, "msg_httperror") = 0

\* C15: in the tabbed widget, once every outstanding product-search response
\* has been handled (all of them answers), chatState.currentQuery and
\* chatState.currentPage are those of the most recently submitted search,
\* whatever the order in which the responses arrived.
C15_LastSearchWins ==
  (Tabbed /\ inflight = {} /\ sent # <<>> /\ noSearchFailed) =>
    /\ currentQuery = Last(sent).text
    /\ currentPage = Last(sent).page

\* C16: in the two-mode widget no /api/chat request is ever sent with an
\* empty message, a Prev / Next click after tab switches included.
C16_NoEmptyMessage ==
  TwoMode =>
    \A i \in 1..Len(sent) : sent[i].url = "/api/chat" => sent[i].text # <<>>

\* what a product search appends to the body, and what an order lookup does
SearchKinds ==
  {"list", "msg_answer", "msg_default", "msg_noresults", "msg_nomatch"}
OrderKinds == {"order_head", "order_text", "order_notfound", "order_cards"}
holds(b, kinds) == \E i \in 1..Len(b) : b[i] \in kinds

\* C17: in the two-mode widget (switchMode empties the body) the body holds
\* no product cards and no product-search answer while chatState.mode is
\* 'orders', and no order summary while it is 'products'.
C17_RenderedInOwnMode ==
  TwoMode => /\ mode = "orders" => ~holds(body, SearchKinds)
             /\ mode = "products" => ~holds(body, OrderKinds)

\* C18: in the two-mode widget, whenever no request is in flight the label
\* of the submit button is 'Enviar' in mode products and 'Consultar' in mode
\* orders.
C18_LabelMatchesMode ==
  (TwoMode /\ inflight = {}) => submitText = idleText(mode)

\* C19: in the two-mode widget, the backend reporting has_prev only for
\* pages greater than 1, a Prev / Next click made on the results just
\* rendered requests a page >= 1 that is the page immediately before / after
\* the page of these results.
C19_PageNextToRendered ==
  [][(/\ TwoMode
      /\ ev.type = "settle" /\ ev.ok
      /\ pagination # Null
      /\ pagination[1].has_prev => ev.page > 1
      /\ ev'.type \in {"prev", "next"}
      /\ Len(sent') = Len(sent) + 1) =>
       /\ Last(sent').page >= 1
       /\ Last(sent').page =
            ev.page + (IF ev'.type = "prev" THEN -1 ELSE 1)]_vars

\* C20: in part_000 a product search that fails (the fetch or resp.json()
\* rejects, or the HTTP status is not ok) leaves chatState.currentQuery,
\* currentPage and pagination unchanged, appends exactly one error message,
\* and ends with chatState.isLoading false and the submit button enabled.
C20_FailedSearchKeepsState ==
  [][(/\ ver = "p000"
      /\ ev'.type = "settle"
      /\ ev'.status \in {"reject", "http_error"}) =>
       /\ UNCHANGED <<currentQuery, currentPage, pagination>>
       /\ \/ body' = Append(body, "msg_neterror")
          \/ body' = Append(body, "msg_httperror")
       /\ ~isLoading'
       /\ ~submitDisabled']_vars

\* C20 witness: a search answered with an HTTP error after an earlier search
\* of another text had succeeded with a pagination
C20_Witness ==
  /\ ver = "p000"
  /\ ev.type = "settle"
  /\ ev.status = "http_error"
  /\ inflight = {}
  /\ Len(sent) = 2
  /\ pagination # Null
  /\ currentQuery = sent[1].text
  /\ sent[2].text # sent[1].text
  /\ count(body, "msg_httperror") = 1

\* C21: in the two-mode widget, once the results of a new search
\* (isNewSearch = true) have been rendered the body holds exactly one product
\* list, whatever searches and page navigations preceded it.
C21_OneListAfterNewSearch ==
  [][(/\ TwoMode
      /\ ev'.type = "settle"
      /\ inflight # {}
      /\ \A i \in inflight : sent[i].url = "/api/chat" /\ sent[i].isNewSearch
      /\ body' # <<>>
      /\ Last(body') = "list") =>
       count(body', "list") = 1]_vars

\* the panel of part_000 that is displayed inside the shell
displayedPanels ==
  {p \in TabPanels : IF p = "products" THEN prodDisplay # "none"
                     ELSE ordDisplay # "none"}

\* C22: in part_000 exactly one of the Productos and Mi pedido panels is
\* displayed, the active tab buttons of both panels are exactly those whose
\* data-tab names the displayed panel, and opening or closing the widget
\* does not change which panel is displayed.
C22_OnePanelDisplayed ==
  /\ [](ver = "p000" =>
          /\ Cardinality(displayedPanels) = 1
          /\ tabsActive = {<<p, d>> : p \in TabPanels, d \in displayedPanels})
  /\ [][(ver = "p000" /\ ev'.type \in {"launcher", "escape", "close"}) =>
          UNCHANGED tabVars]_vars

\* C22 witness: the widget re-opened with the launcher while the Mi pedido
\* panel is the displayed one
C22_Witness ==
  /\ ver = "p000"
  /\ ev.type = "launcher"
  /\ isOpen
  /\ ordDisplay = "block"
  /\ prodDisplay = "none"

OrderBotKinds ==
  {"msg_ordneterror", "msg_ordunavailable", "msg_ordanswer", "msg_ordnodata"}

\* C23: in part_000 the order lookup changes neither chatState nor the
\* product message list nor the pagination bar; a lookup with non-blank
\* input appends exactly one user message to the orders body, and the
\* settling of its fetch appends exactly one bot message and enables the
\* orders submit button.
C23_OrderFlowIndependent ==
  /\ [][(ver = "p000" /\ ev'.type \in {"order_submit", "order_settle"}) =>
          UNCHANGED <<chatVars, body, pagiVars>>]_vars
  /\ [][(ver = "p000" /\ ev'.type = "order_submit"
           /\ trim(ev'.raw) # <<>>) =>
          bodyOrders' = Append(bodyOrders, "user")]_vars
  /\ [][(ver = "p000" /\ ev'.type = "order_settle") =>
          /\ Len(bodyOrders') = Len(bodyOrders) + 1
          /\ SubSeq(bodyOrders', 1, Len(bodyOrders)) = bodyOrders
          /\ Last(bodyOrders') \in OrderBotKinds
          /\ ~ordersDisabled']_vars

\* C23 witness: an order lookup settled while a product search was loading
C23_Witness ==
  /\ ver = "p000"
  /\ ev.type = "order_settle"
  /\ inflight # {}
  /\ isLoading
  /\ ordersInflight = {}
  /\ ~ordersDisabled
  /\ Len(bodyOrders) = 3


\* the text messages of the bot in a chat body: answer, fallback and error
botMessages(b) ==
  count(b, "msg_answer") + count(b, "msg_fallback") + count(b, "msg_error")

\* C24: in widget.js and part_003 the settlement of the request of a non-blank
\* query, whatever it settles with (rejection, JSON null, an answer or none,
\* any products value), adds exactly one bot text message to the body.
C24_OneBotMessagePerQuery ==
  [][(Chat /\ ev'.type = "settle") =>
       botMessages(body') = botMessages(body) + 1]_vars


\* the value of key k of a payload
valueOf(o, k) == (CHOOSE kv \in o : kv[1] = k)[2]

\* the calls of track made by the step, of event maxter_products_shown
shownInStep ==
  {i \in (Len(tracked) + 1)..Len(tracked') :
     tracked'[i][1] = "maxter_products_shown"}

\* C25: in widget.js, handling a response emits maxter_products_shown once if
\* it attaches a product list and not at all otherwise, never for an empty or
\* missing products array; the event's items_count is the number of products
\* of the response, and its items are the first min(20, n) of them in order,
\* the item at position i (from 0) carrying index i.
C25_ImpressionsPerList ==
  [][(ver = "widget" /\ ev'.type = "settle") =>
       LET ps == productList(ev'.res.products)
           n == Len(ps)
       IN /\ Cardinality(shownInStep) = count(body', "list") - count(body, "list")
          /\ ev'.res.products \in {"none", "empty"} => shownInStep = {}
          /\ \A k \in shownInStep :
               LET items == valueOf(tracked'[k][2], "items")
               IN /\ valueOf(tracked'[k][2], "items_count") = n
                  /\ valueOf(tracked'[k][2], "query") = sent[ev'.req].text
                  /\ Len(items) = (IF n < 20 THEN n ELSE 20)
                  /\ \A i \in 1..Len(items) :
                       items[i].index = i - 1 /\ items[i].title = ps[i].title]_vars

\* C25 witness: a list of more than 20 products was rendered and its
\* impressions tracked, 20 items for the whole list
C25_Witness ==
  /\ ver = "widget"
  /\ ev.type = "settle"
  /\ ev.res.products = "many"
  /\ Last(body) = "list"
  /\ Len(tracked) >= 2
  /\ tracked[Len(tracked) - 1][1] = "maxter_products_shown"
  /\ Len(valueOf(tracked[Len(tracked) - 1][2], "items")) = 20
  /\ valueOf(tracked[Len(tracked) - 1][2], "items_count") > 20


\* ---- part_003 on its own, as functions of what the user sees
\* o = [body, mxOpen, submitDisabled, greeted]
Seen ==
  [body |-> body, mxOpen |-> mxOpen, submitDisabled |-> submitDisabled,
   greeted |-> greeted]

\* part_003: the two click listeners of the floating button
p003_fabClick(o) ==
  LET o1 == [o EXCEPT !.mxOpen = ~o.mxOpen]
  IN IF ~o1.greeted /\ o1.mxOpen
     THEN [o1 EXCEPT !.body = appendMsg(o1.body, "greeting"), !.greeted = TRUE]
     ELSE o1

\* part_003: close()
p003_close(o) == [o EXCEPT !.mxOpen = FALSE]

\* part_003: sendQuery() up to its first await, q being the trimmed text
p003_sendQuery(o, q) ==
  IF q = <<>> THEN o
  ELSE [o EXCEPT !.body = appendMsg(o.body, "user"), !.submitDisabled = TRUE]

\* part_003: renderProducts(products)
p003_renderProducts(b, products) ==
  IF products \in {"none", "empty"} THEN [body |-> b, threw |-> FALSE]
  ELSE IF products = "bad" THEN [body |-> b, threw |-> TRUE]
  ELSE [body |-> Append(b, "list"), threw |-> FALSE]

\* part_003: sendQuery() from its first await to the end of finally
p003_sendResume(o, res) ==
  LET b1 == appendMsg(o.body, IF res.status = "ok" /\ res.answer
                              THEN "msg_answer" ELSE "msg_fallback")
      t == IF res.status = "reject" THEN [body |-> o.body, threw |-> TRUE]
           ELSE IF res.status = "null" THEN [body |-> b1, threw |-> TRUE]
           ELSE p003_renderProducts(b1, res.products)
      b2 == IF t.threw THEN appendMsg(t.body, "msg_error") ELSE t.body
  IN [o EXCEPT !.body = b2, !.submitDisabled = FALSE]

\* C26: every step of widget.js changes the messages and lists of the body,
\* the open state of the panel and the disabled state of the send button as
\* part_003 does for the same event or response, and issues a request exactly
\* when part_003 does: widget.js refines part_003.
C26_WidgetRefinesPart003 ==
  [][ver = "widget" =>
       /\ ev'.type = "fab" => Seen' = p003_fabClick(Seen)
       /\ ev'.type = "close" => Seen' = p003_close(Seen)
       /\ ev'.type = "submit" =>
            /\ Seen' = p003_sendQuery(Seen, ev'.q)
            /\ Len(sent') = Len(sent) + (IF ev'.q = <<>> THEN 0 ELSE 1)
       /\ ev'.type = "settle" => Seen' = p003_sendResume(Seen, ev'.res)
       /\ ev'.type \in {"exec", "DOMContentLoaded"} => Seen' = Seen]_vars


\* C27: in part_004, part_002 and part_001 the widget is eventually mounted,
\* whether the script executes before or after DOMContentLoaded fired.
C27_EventuallyMounted ==
  <>(ver \in {"p004", "p002", "p001"} /\ Mounted)
====
